---- MODULE Spec2Model ----
(***************************************************************************)
(* Grigori.Rlm sandbox: the code validator, the RlmRepl execution engine   *)
(* (sandbox.py) and the recursive callback to the orchestrator (main.py).  *)
(* One RlmRepl per thread; sys_stdout is the process-wide stream.          *)
(***************************************************************************)
EXTENDS Integers, Sequences, FiniteSets, TLC

(***************************************************************************)
(* Bounds of the model and program constants.                              *)
(***************************************************************************)
max_calls == 20

MaxCallsMade == 22

MaxBuf == 2

MaxExecs == 2

(***************************************************************************)
(* Python values the scripts handle: a type tag and the text str() gives.  *)
(***************************************************************************)
Str(s) == [ty |-> "str", v |-> s]

NoneVal == [ty |-> "NoneType", v |-> "None"]

Int7 == [ty |-> "int", v |-> "7"]

\* a list nested deeper than the interpreter's recursion limit
DeepList == [ty |-> "list", v |-> "[[[...]]]"]

\* the result slot after `del result`
NoSlot == [ty |-> "<missing>", v |-> ""]

isinstance_str(x) == x.ty = "str"

\* str(x) raises (RecursionError) instead of returning
str_raises(x) == x = DeepList

str(x) == [ty |-> "str", v |-> x.v]

Min(a, b) == IF a <= b THEN a ELSE b

Max(a, b) == IF a >= b THEN a ELSE b

\* Python slice s[:n], n of either sign
SliceTo(s, n) ==
    IF n >= 0 THEN SubSeq(s, 1, Min(n, Len(s)))
    ELSE SubSeq(s, 1, Max(Len(s) + n, 0))

(***************************************************************************)
(* CodeValidator and validate_code.                                        *)
(***************************************************************************)
BLOCKED_NAMES ==
    { "__import__", "eval", "exec", "compile", "open",
      "input", "breakpoint", "globals", "locals", "vars",
      "dir", "type", "object", "getattr", "setattr", "delattr",
      "hasattr", "memoryview", "bytearray", "bytes" }

BLOCKED_ATTRS ==
    { "__class__", "__bases__", "__mro__", "__subclasses__",
      "__globals__", "__code__", "__builtins__", "__import__",
      "__dict__", "__module__", "__self__", "__func__",
      "__closure__", "__annotations__", "__kwdefaults__",
      "__defaults__", "__qualname__", "__reduce__", "__reduce_ex__" }

\* the characters of the identifiers the sample scripts use
Spelling ==
    ("" :> << >>)
    @@ ("os" :> <<"o", "s">>)
    @@ ("x" :> <<"x">>)
    @@ ("f" :> <<"f">>)
    @@ ("result" :> <<"r", "e", "s", "u", "l", "t">>)
    @@ ("mro" :> <<"m", "r", "o">>)
    @@ ("Exception" :> <<"E", "x", "c", "e", "p", "t", "i", "o", "n">>)
    @@ ("get_context" :> <<"g", "e", "t", "_", "c", "o", "n", "t", "e", "x", "t">>)
    @@ ("eval" :> <<"e", "v", "a", "l">>)
    @@ ("getattr" :> <<"g", "e", "t", "a", "t", "t", "r">>)
    @@ ("__class__" :> <<"_", "_", "c", "l", "a", "s", "s", "_", "_">>)
    @@ ("__x__" :> <<"_", "_", "x", "_", "_">>)
    @@ ("_p" :> <<"_", "p">>)

startswith(name, prefix) ==
    LET s == Spelling[name]
    IN  Len(s) >= Len(prefix) /\ SubSeq(s, 1, Len(prefix)) = prefix

endswith(name, suffix) ==
    LET s == Spelling[name]
    IN  Len(s) >= Len(suffix) /\ SubSeq(s, Len(s) - Len(suffix) + 1, Len(s)) = suffix

Node(kind, name, arg2) == [kind |-> kind, name |-> name, arg2 |-> arg2]

visit_Import(node) ==
    << "Import statements not allowed: import " \o node.name >>

visit_ImportFrom(node) ==
    << "Import statements not allowed: from " \o node.name \o " import ..." >>

visit_Name(node) ==
    IF node.name \in BLOCKED_NAMES
    THEN << "Blocked function: " \o node.name >>
    ELSE IF startswith(node.name, <<"_", "_">>) /\ endswith(node.name, <<"_", "_">>)
    THEN << "Dunder names not allowed: " \o node.name >>
    ELSE << >>

visit_Attribute(node) ==
    IF node.name \in BLOCKED_ATTRS
    THEN << "Blocked attribute: " \o node.name >>
    ELSE IF startswith(node.name, <<"_", "_">>) /\ endswith(node.name, <<"_", "_">>)
    THEN << "Dunder attributes not allowed: " \o node.name >>
    ELSE IF startswith(node.name, <<"_">>)
    THEN << "Private attributes not allowed: " \o node.name >>
    ELSE << >>

\* node.name: the called Name's id ("" when the callee is no Name);
\* node.arg2: the literal string second argument ("" when there is none)
visit_Call(node) ==
    IF /\ node.name \in {"getattr", "setattr", "delattr", "hasattr"}
       /\ node.arg2 # ""
       /\ (node.arg2 \in BLOCKED_ATTRS \/ startswith(node.arg2, <<"_">>))
    THEN << "Blocked dynamic attribute access: " \o node.arg2 >>
    ELSE << >>

visit(node) ==
    CASE node.kind = "Import" -> visit_Import(node)
      [] node.kind = "ImportFrom" -> visit_ImportFrom(node)
      [] node.kind = "Name" -> visit_Name(node)
      [] node.kind = "Attribute" -> visit_Attribute(node)
      [] node.kind = "Call" -> visit_Call(node)
      [] OTHER -> << >>

\* the walk over the tree, its nodes given in the order the visitor meets them
RECURSIVE Walk(_)
Walk(nodes) ==
    IF nodes = << >> THEN << >>
    ELSE visit(Head(nodes)) \o Walk(Tail(nodes))

\* no exception left the call
NoRaise == "<none>"

\* validate_code returns the tuple (ok, errors) or, when ast.parse raises something
\* that is no SyntaxError, lets that exception out: no tuple then
validate_code(code) ==
    IF ~code.parses /\ code.raises = "SyntaxError"
    THEN [raised |-> NoRaise, ok |-> FALSE,
          errors |-> << "Syntax error at line " \o ToString(code.lineno) \o ": " \o code.msg >>]
    ELSE IF ~code.parses
    THEN [raised |-> code.raises, ok |-> FALSE, errors |-> << >>]
    ELSE LET errors == Walk(code.tree)
         IN  [raised |-> NoRaise, ok |-> Len(errors) = 0, errors |-> errors]

\* a source text ast.parse turns into a tree (its nodes below Module, in the
\* order the visitor meets them)
Source(tree) ==
    [parses |-> TRUE, raises |-> "", lineno |-> 0, msg |-> "", tree |-> tree]

\* a source text ast.parse raises on
Unparsed(exc, lineno, msg) ==
    [parses |-> FALSE, raises |-> exc, lineno |-> lineno, msg |-> msg, tree |-> << >>]

\* sample scripts: result = get_context(x); import os; from os import x;
\* a text that does not parse; eval(x.__class__); x._p;
\* getattr(x, "__class__"); __x__; raise Exception.mro()[1](x)
Scripts ==
    { Source(<< Node("Assign", "", ""), Node("Name", "result", ""),
                Node("Call", "get_context", ""), Node("Name", "get_context", ""),
                Node("Name", "x", "") >>),
      Source(<< Node("Import", "os", "") >>),
      Source(<< Node("ImportFrom", "os", "") >>),
      Unparsed("SyntaxError", 1, "invalid syntax"),
      Source(<< Node("Expr", "", ""), Node("Call", "eval", ""), Node("Name", "eval", ""),
                Node("Attribute", "__class__", ""), Node("Name", "x", "") >>),
      Source(<< Node("Expr", "", ""), Node("Attribute", "_p", ""), Node("Name", "x", "") >>),
      Source(<< Node("Expr", "", ""), Node("Call", "getattr", "__class__"),
                Node("Name", "getattr", ""), Node("Name", "x", ""),
                Node("Constant", "", "") >>),
      Source(<< Node("Expr", "", ""), Node("Name", "__x__", "") >>),
      Source(<< Node("Raise", "", ""), Node("Call", "", ""), Node("Subscript", "", ""),
                Node("Call", "", ""), Node("Attribute", "mro", ""),
                Node("Name", "Exception", ""), Node("Name", "x", "") >>) }

MaxStmts == 2

\* sample statements: result = get_context(x); import os; from os import x;
\* eval(x.__class__); x._p; getattr(x, "__class__"); __x__; x.mro;
\* def __x__(): pass; f(__x__=x); def f(): import os
Statements ==
    { << Node("Assign", "", ""), Node("Name", "result", ""),
         Node("Call", "get_context", ""), Node("Name", "get_context", ""),
         Node("Name", "x", "") >>,
      << Node("Import", "os", "") >>,
      << Node("ImportFrom", "os", "") >>,
      << Node("Expr", "", ""), Node("Call", "eval", ""), Node("Name", "eval", ""),
         Node("Attribute", "__class__", ""), Node("Name", "x", "") >>,
      << Node("Expr", "", ""), Node("Attribute", "_p", ""), Node("Name", "x", "") >>,
      << Node("Expr", "", ""), Node("Call", "getattr", "__class__"),
         Node("Name", "getattr", ""), Node("Name", "x", ""), Node("Constant", "", "") >>,
      << Node("Expr", "", ""), Node("Name", "__x__", "") >>,
      << Node("Expr", "", ""), Node("Attribute", "mro", ""), Node("Name", "x", "") >>,
      << Node("FunctionDef", "__x__", ""), Node("arguments", "", ""),
         Node("Pass", "", "") >>,
      << Node("Expr", "", ""), Node("Call", "f", ""), Node("Name", "f", ""),
         Node("keyword", "__x__", ""), Node("Name", "x", "") >>,
      << Node("FunctionDef", "f", ""), Node("arguments", "", ""),
         Node("Import", "os", "") >> }

RECURSIVE Body(_)
Body(stmts) ==
    IF stmts = << >> THEN << >> ELSE Head(stmts) \o Body(Tail(stmts))

\* the source texts given to validate_code: scripts of up to MaxStmts sample
\* statements, a text with a syntax error, and 1+1+...+1 with 3000 terms
ValidatorInputs ==
    { Source(Body(stmts)) : stmts \in UNION { [1..n -> Statements] : n \in 1..MaxStmts } }
    \cup { Unparsed("SyntaxError", 1, "invalid syntax"),
           Unparsed("RecursionError", 0,
                    "maximum recursion depth exceeded during ast construction") }

(***************************************************************************)
(* make_recursive_callback (main.py) and RlmRepl.rlm_call.                 *)
(***************************************************************************)
\* what the POST to <callback_url>/rlm/recurse can come to
TransportOutcomes ==
    { [kind |-> "TimeoutException", msg |-> "timed out", is_dict |-> FALSE,
       has_result |-> FALSE, result |-> NoneVal],
      [kind |-> "HTTPStatusError", msg |-> "Server error 500", is_dict |-> FALSE,
       has_result |-> FALSE, result |-> NoneVal],
      [kind |-> "response", msg |-> "", is_dict |-> FALSE,
       has_result |-> FALSE, result |-> NoneVal],
      [kind |-> "response", msg |-> "", is_dict |-> TRUE,
       has_result |-> FALSE, result |-> NoneVal],
      [kind |-> "response", msg |-> "", is_dict |-> TRUE,
       has_result |-> TRUE, result |-> Str("R")],
      [kind |-> "response", msg |-> "", is_dict |-> TRUE,
       has_result |-> TRUE, result |-> NoneVal] }

\* rlm_call's subset argument when the script leaves it out
NoSubset == [given |-> FALSE, map |-> << >>]

NoReq ==
    [posted |-> FALSE, depth |-> 0, context |-> << >>, whole |-> FALSE,
     subset |-> NoSubset]

CallBudgetToken ==
    Str("[ERROR: Max recursive calls (" \o ToString(max_calls) \o ") exceeded]")

DepthToken(md) ==
    Str("[Max recursion depth (" \o ToString(md) \o ") reached]")

TimeoutToken == Str("[ERROR: Recursive call timed out]")

ErrorToken(msg) == Str("[ERROR: Recursive call failed - " \o msg \o "]")

\* the try block of callback: the POST, raise_for_status, json().get
post(outcome) ==
    IF outcome.kind = "TimeoutException" THEN TimeoutToken
    ELSE IF outcome.kind # "response" THEN ErrorToken(outcome.msg)
    ELSE IF ~outcome.is_dict THEN ErrorToken("'list' object has no attribute 'get'")
    ELSE IF outcome.has_result THEN outcome.result
    ELSE Str("")

\* the depth test off by one: d > md
callback_late(subset, d, md, outcome) ==
    IF d > md
    THEN [ret |-> DepthToken(md), req |-> NoReq]
    ELSE [ret |-> post(outcome),
          req |-> [posted |-> TRUE, depth |-> d + 1, context |-> subset,
                   whole |-> FALSE, subset |-> NoSubset]]

callback(subset, d, md, outcome) ==
    IF d >= md
    THEN [ret |-> DepthToken(md), req |-> NoReq]
    ELSE [ret |-> post(outcome),
          req |-> [posted |-> TRUE, depth |-> d + 1, context |-> subset,
                   whole |-> FALSE, subset |-> NoSubset]]

\* `if not subset` in the place of `if subset is None`
rlm_call_falsy(count, ctx, subset, d, md, outcome) ==
    LET n == count + 1
    IN  IF n > max_calls
        THEN [call_count |-> n, ret |-> CallBudgetToken, req |-> NoReq]
        ELSE LET r == callback(IF subset.given /\ subset.map # << >>
                               THEN subset.map ELSE ctx, d, md, outcome)
             IN  [call_count |-> n, ret |-> r.ret,
                  req |-> [r.req EXCEPT !.whole = r.req.posted /\ ~subset.given,
                                        !.subset = IF r.req.posted THEN subset
                                                   ELSE NoSubset]]

\* subset: [given |-> FALSE] for None, else the mapping passed
rlm_call(count, ctx, subset, d, md, outcome) ==
    LET n == count + 1
    IN  IF n > max_calls
        THEN [call_count |-> n, ret |-> CallBudgetToken, req |-> NoReq]
        ELSE LET r == callback(IF subset.given THEN subset.map ELSE ctx, d, md, outcome)
             IN  [call_count |-> n, ret |-> r.ret,
                  req |-> [r.req EXCEPT !.whole = r.req.posted /\ ~subset.given,
                                        !.subset = IF r.req.posted THEN subset
                                                   ELSE NoSubset]]

(***************************************************************************)
(* RlmRepl.execute: the pieces of the returned dictionary.                 *)
(***************************************************************************)
\* "\n[OUTPUT TRUNCATED]"
Marker ==
    << "\n", "[", "O", "U", "T", "P", "U", "T", " ",
       "T", "R", "U", "N", "C", "A", "T", "E", "D", "]" >>

\* the length test off by one: >=
Truncate_early(output, limit) ==
    IF Len(output) >= limit THEN SliceTo(output, limit) \o Marker ELSE output

Truncate(output, limit) ==
    IF Len(output) > limit THEN SliceTo(output, limit) \o Marker ELSE output

\* the slot's value handed back as it is, str() never applied
CoerceResult_raw(slot) ==
    IF slot = NoSlot THEN Str("") ELSE slot

\* namespace.get("result", "") and the coercion to str
CoerceResult(slot) ==
    LET result_value == IF slot = NoSlot THEN Str("") ELSE slot
    IN  IF isinstance_str(result_value) THEN result_value ELSE str(result_value)

RECURSIVE JoinErrors(_)
JoinErrors(errors) ==
    IF errors = << >> THEN ""
    ELSE "  - " \o Head(errors)
         \o (IF Len(errors) > 1 THEN "\n" ELSE "") \o JoinErrors(Tail(errors))

RejectedResult(errors, count) ==
    [result |-> Str(""), output |-> << >>,
     error |-> Str("Code validation failed:\n" \o JoinErrors(errors)),
     call_count |-> count]

\* a fault handled as a rejection is: result and output dropped
ExecutionResult_dropped(slot_value, captured, limit, err, count) ==
    [result |-> IF err = NoneVal THEN CoerceResult(slot_value) ELSE Str(""),
     output |-> IF err = NoneVal THEN Truncate(captured, limit) ELSE << >>,
     error |-> err,
     call_count |-> count]

\* lines 260-274: the dictionary a validated script's execute returns
ExecutionResult(slot_value, captured, limit, err, count) ==
    [result |-> CoerceResult(slot_value),
     output |-> Truncate(captured, limit),
     error |-> err,
     call_count |-> count]

\* f"{type(e).__name__}: {str(e)}\n{traceback.format_exc()}"
FormatError(e) ==
    Str(e.type \o ": " \o str(e.arg).v \o "\nTraceback (most recent call last): ...")

\* classes that `except Exception` catches
ExceptionSubclasses == {"Exception", "ZeroDivisionError", "KeyError", "RecursionError"}

\* what a statement of a validated script can raise: 1/0, raise Exception(<deep list>),
\* raise Exception.mro()[1]("x")
Raisable ==
    { [type |-> "ZeroDivisionError", arg |-> Str("division by zero")],
      [type |-> "Exception", arg |-> DeepList],
      [type |-> "BaseException", arg |-> Str("x")] }

NoExc == "<none>"

NoResult ==
    [result |-> NoSlot, output |-> << >>, error |-> NoneVal, call_count |-> -1]

(***************************************************************************)
(* The inputs: what a caller passes to RlmRepl and make_recursive_callback. *)
(***************************************************************************)
\* an entry of a dict: its key, the text of its value, the value's Python type
Entry(k, v) == [key |-> k, value |-> v, ty |-> "str"]

\* the entry `context[k] = 7` stores
IntEntry(k) == [key |-> k, value |-> "7", ty |-> "int"]

Keys == {"k"}

Values == {"v"}

\* a mapping as its entries in insertion order
Contexts == { << Entry("k", "v") >> }

Depths == {0, 1}

MaxDepths == {1}

OutputLimits == {-1, 0, 1}

\* print(...) with end="" or the default end
WrittenTexts == { <<"a">>, <<"a", "\n">> }

ResultValues == { Str(""), Str("ok"), Int7, DeepList }

\* rlm_call(prompt) and rlm_call(prompt, {})
SubsetArgs ==
    { NoSubset, [given |-> TRUE, map |-> << >>],
      [given |-> TRUE, map |-> << Entry("s", "v") >>] }

has_key(ctx, k) == \E i \in 1..Len(ctx) : ctx[i].key = k

\* context[k] = v
dict_store(ctx, e) ==
    IF has_key(ctx, e.key)
    THEN [i \in 1..Len(ctx) |-> IF ctx[i].key = e.key THEN e ELSE ctx[i]]
    ELSE Append(ctx, e)

dict_setitem(ctx, k, v) == dict_store(ctx, Entry(k, v))

\* context.pop(k, None)
dict_pop(ctx, k) == SelectSeq(ctx, LAMBDA e : e.key # k)

(***************************************************************************)
(* RlmRepl.get_context and RlmRepl.search_context.                         *)
(***************************************************************************)
\* the characters of the keys, values and patterns of the sample mappings
Chars ==
    ("" :> << >>)
    @@ ("Key" :> <<"K", "e", "y">>)
    @@ ("b" :> <<"b">>)
    @@ ("n" :> <<"n">>)
    @@ ("aB" :> <<"a", "B">>)
    @@ ("x" :> <<"x">>)
    @@ ("B" :> <<"B">>)
    @@ ("KE" :> <<"K", "E">>)
    @@ ("z" :> <<"z">>)

\* upper-case letters of the samples and their lower-case forms
Letters == { <<"K", "k">>, <<"E", "e">>, <<"B", "b">> }

lower_char(c) ==
    IF \E p \in Letters : p[1] = c THEN (CHOOSE p \in Letters : p[1] = c)[2] ELSE c

\* str.lower()
lower(text) == [i \in 1..Len(text) |-> lower_char(text[i])]

\* needle in hay, for two str
contains(hay, needle) ==
    \E i \in 0..(Len(hay) - Len(needle)) : SubSeq(hay, i + 1, i + Len(needle)) = needle

\* a dict value: its entries in insertion order
Dict(entries) == [ty |-> "dict", items |-> entries]

KeyNotFound(key) == Str("[Key '" \o key \o "' not found in context]")

get_context(ctx, key) ==
    IF has_key(ctx, key)
    THEN LET e == ctx[CHOOSE i \in 1..Len(ctx) : ctx[i].key = key]
         IN  [ty |-> e.ty, v |-> e.value]
    ELSE KeyNotFound(key)

\* the dict comprehension: v.lower() is reached only when the key does not match,
\* and raises AttributeError for a value that is no str
search_context(ctx, pattern) ==
    LET pattern_lower == lower(Chars[pattern])
        in_key(e) == contains(lower(Chars[e.key]), pattern_lower)
    IN  IF \E i \in 1..Len(ctx) : ~in_key(ctx[i]) /\ ctx[i].ty # "str"
        THEN [raised |-> "AttributeError", ret |-> NoneVal]
        ELSE [raised |-> NoRaise,
              ret |-> Dict(SelectSeq(ctx, LAMBDA e :
                          in_key(e) \/ contains(lower(Chars[e.value]), pattern_lower)))]

AccessContexts ==
    { << Entry("Key", "aB"), Entry("b", "x") >>,
      << Entry("b", "x"), Entry("Key", "aB") >>,
      << >> }

AccessKeys == {"Key", "b", "z"}

Patterns == {"", "B", "KE", "z", "n"}

VARIABLES
    sys_stdout,        \* sys.stdout: the stream print writes to
    pc,                \* where each thread is in execute
    call_count,        \* self._call_count
    context,           \* self.context
    max_output_len,    \* self._max_output_len
    depth,             \* depth in the callback's closure
    max_depth,         \* max_depth in the callback's closure
    stdout_capture,    \* the text in execute's StringIO
    old_stdout,        \* execute's local old_stdout
    slot,              \* namespace["result"]
    error,             \* execute's local error
    raised,            \* the exception propagating out of the try statement
    ret,               \* the dictionary the last execute returned
    escaped,           \* the exception the last execute let out
    execs,             \* executes started on the RlmRepl
    supplied,          \* the mapping the caller passed to __init__
    printed,           \* the text the running script's own print calls wrote
    made,              \* rlm_call invocations of the running script
    base,              \* self._call_count when execute was entered
    verdict,           \* how validation of the latest script ended
    last_call,         \* the latest rlm_call: what it returned, its POSTs, their outcome
    sent,              \* the latest request POSTed to the orchestrator
    posts,             \* POSTs during the execution
    atfault,           \* printed text, slot and counter when the script raised
    checked,           \* the latest validate_code call: its source text and what came back
    query              \* the latest accessor call of each script: arguments, mapping, outcome

vars ==
    << sys_stdout, pc, call_count, context, max_output_len, depth, max_depth,
       stdout_capture, old_stdout, slot, error, raised, ret, escaped, execs,
       supplied, printed, made, base, verdict, last_call, sent, posts, atfault,
       checked, query >>

OrigStream == [stream |-> "orig", owner |-> 0, gen |-> 0]

Capture(t, g) == [stream |-> "capture", owner |-> t, gen |-> g]

NoOutcome ==
    [kind |-> "<none>", msg |-> "", is_dict |-> FALSE, has_result |-> FALSE,
     result |-> NoneVal]

NoCall == [called |-> FALSE, ret |-> NoneVal, posts |-> 0, outcome |-> NoOutcome]

NoCheck == [called |-> FALSE]

NoQuery == [called |-> FALSE]

NoFault == [faulted |-> FALSE, printed |-> << >>, slot |-> NoSlot, count |-> 0]

\* the state after RlmRepl.__init__ and make_recursive_callback, for threads ts
\* and mappings drawn from ctxs
ConstructedWith(ts, ctxs) ==
    /\ sys_stdout = OrigStream
    /\ pc = [t \in ts |-> "idle"]
    /\ call_count = [t \in ts |-> 0]
    /\ context \in [ts -> ctxs]
    /\ supplied = context
    /\ max_output_len \in [ts -> OutputLimits]
    /\ depth \in [ts -> Depths]
    /\ max_depth \in [ts -> MaxDepths]
    /\ stdout_capture = [t \in ts |-> << >>]
    /\ old_stdout = [t \in ts |-> OrigStream]
    /\ slot = [t \in ts |-> NoSlot]
    /\ error = [t \in ts |-> NoneVal]
    /\ raised = [t \in ts |-> NoExc]
    /\ ret = [t \in ts |-> NoResult]
    /\ escaped = [t \in ts |-> NoExc]
    /\ execs = [t \in ts |-> 0]
    /\ checked = NoCheck
    /\ query = [t \in ts |-> NoQuery]
    /\ printed = [t \in ts |-> << >>]
    /\ made = [t \in ts |-> 0]
    /\ base = [t \in ts |-> 0]
    /\ verdict = [t \in ts |-> "none"]
    /\ last_call = [t \in ts |-> NoCall]
    /\ sent = [t \in ts |-> NoReq]
    /\ posts = [t \in ts |-> 0]
    /\ atfault = [t \in ts |-> NoFault]

Constructed(ts) == ConstructedWith(ts, Contexts)

Init == Constructed({1})

(***************************************************************************)
(* RlmRepl.execute, one action per step another thread can observe.        *)
(***************************************************************************)
\* the capture buffer a stream names is the one a running execute still reads
Live(stream) ==
    /\ stream.stream = "capture"
    /\ stream.gen = execs[stream.owner]
    /\ pc[stream.owner] \in {"redirect", "exec", "waiting", "finally", "collect"}

Enter(t) ==
    /\ execs' = [execs EXCEPT ![t] = @ + 1]
    /\ escaped' = [escaped EXCEPT ![t] = NoExc]
    /\ printed' = [printed EXCEPT ![t] = << >>]
    /\ made' = [made EXCEPT ![t] = 0]
    /\ base' = [base EXCEPT ![t] = call_count[t]]
    /\ last_call' = [last_call EXCEPT ![t] = NoCall]
    /\ sent' = [sent EXCEPT ![t] = NoReq]
    /\ posts' = [posts EXCEPT ![t] = 0]
    /\ atfault' = [atfault EXCEPT ![t] = NoFault]

\* the verdict ignored: a rejected script goes on to be executed
ExecuteRejected_runs(t, limit) ==
    /\ pc[t] = "idle"
    /\ execs[t] < limit
    /\ \E code \in Scripts :
          validate_code(code).raised = NoRaise /\ ~validate_code(code).ok
    /\ stdout_capture' = [stdout_capture EXCEPT ![t] = << >>]
    /\ old_stdout' = [old_stdout EXCEPT ![t] = sys_stdout]
    /\ slot' = [slot EXCEPT ![t] = Str("")]
    /\ error' = [error EXCEPT ![t] = NoneVal]
    /\ raised' = [raised EXCEPT ![t] = NoExc]
    /\ ret' = [ret EXCEPT ![t] = NoResult]
    /\ pc' = [pc EXCEPT ![t] = "redirect"]
    /\ verdict' = [verdict EXCEPT ![t] = "rejected"]
    /\ Enter(t)
    /\ UNCHANGED << sys_stdout, call_count, context, max_output_len, depth,
                    max_depth, supplied, checked, query >>

\* execute, lines 159-166: the script fails validation
ExecuteRejected(t, limit) ==
    /\ pc[t] = "idle"
    /\ execs[t] < limit
    /\ \E code \in Scripts :
          LET v == validate_code(code)
          IN  /\ v.raised = NoRaise
              /\ ~v.ok
              /\ ret' = [ret EXCEPT ![t] = RejectedResult(v.errors, call_count[t])]
    /\ verdict' = [verdict EXCEPT ![t] = "rejected"]
    /\ Enter(t)
    /\ UNCHANGED << sys_stdout, pc, call_count, context, max_output_len, depth,
                    max_depth, stdout_capture, old_stdout, slot, error, raised,
                    supplied,
                    checked, query >>

\* execute, lines 159-251: validation passes; the buffer, old_stdout, the namespace
ExecuteValidated(t, limit) ==
    /\ pc[t] = "idle"
    /\ execs[t] < limit
    /\ \E code \in Scripts :
          validate_code(code).raised = NoRaise /\ validate_code(code).ok
    /\ stdout_capture' = [stdout_capture EXCEPT ![t] = << >>]
    /\ old_stdout' = [old_stdout EXCEPT ![t] = sys_stdout]
    /\ slot' = [slot EXCEPT ![t] = Str("")]
    /\ error' = [error EXCEPT ![t] = NoneVal]
    /\ raised' = [raised EXCEPT ![t] = NoExc]
    /\ ret' = [ret EXCEPT ![t] = NoResult]
    /\ pc' = [pc EXCEPT ![t] = "redirect"]
    /\ verdict' = [verdict EXCEPT ![t] = "validated"]
    /\ Enter(t)
    /\ UNCHANGED << sys_stdout, call_count, context, max_output_len, depth,
                    max_depth, supplied,
                    checked, query >>

\* line 253: sys.stdout = stdout_capture
Redirect(t) ==
    /\ pc[t] = "redirect"
    /\ sys_stdout' = Capture(t, execs[t])
    /\ pc' = [pc EXCEPT ![t] = "exec"]
    /\ UNCHANGED << call_count, context, max_output_len, depth, max_depth,
                    stdout_capture, old_stdout, slot, error, raised, ret, escaped,
                    execs, supplied, printed, made, base, verdict, last_call, sent, posts, atfault,
                    checked, query >>

\* the script calls print: the text goes to whatever sys.stdout is now
ScriptPrint(t) ==
    /\ pc[t] = "exec"
    /\ \E text \in WrittenTexts :
          /\ Len(printed[t]) + Len(text) <= MaxBuf
          /\ printed' = [printed EXCEPT ![t] = @ \o text]
          /\ stdout_capture' =
                IF Live(sys_stdout)
                THEN [stdout_capture EXCEPT ![sys_stdout.owner] = @ \o text]
                ELSE stdout_capture
    /\ UNCHANGED << sys_stdout, pc, call_count, context, max_output_len, depth,
                    max_depth, old_stdout, slot, error, raised, ret, escaped, execs,
                    supplied, made, base, verdict, last_call, sent, posts, atfault,
                    checked, query >>

\* the script assigns to result
AssignResult(t) ==
    /\ pc[t] = "exec"
    /\ \E v \in ResultValues : slot' = [slot EXCEPT ![t] = v]
    /\ UNCHANGED << sys_stdout, pc, call_count, context, max_output_len, depth,
                    max_depth, stdout_capture, old_stdout, error, raised, ret,
                    escaped, execs, supplied, printed, made, base, verdict, last_call, sent,
                    posts, atfault,
                    checked, query >>

\* the script runs `del result`
DelResult(t) ==
    /\ pc[t] = "exec"
    /\ slot[t] # NoSlot
    /\ slot' = [slot EXCEPT ![t] = NoSlot]
    /\ UNCHANGED << sys_stdout, pc, call_count, context, max_output_len, depth,
                    max_depth, stdout_capture, old_stdout, error, raised, ret,
                    escaped, execs, supplied, printed, made, base, verdict, last_call, sent,
                    posts, atfault,
                    checked, query >>

\* the script writes through the name `context`, which is self.context itself
ContextSet(t) ==
    /\ pc[t] = "exec"
    /\ \E k \in Keys, v \in Values :
          context' = [context EXCEPT ![t] = dict_setitem(@, k, v)]
    /\ UNCHANGED << sys_stdout, pc, call_count, max_output_len, depth, max_depth,
                    stdout_capture, old_stdout, slot, error, raised, ret, escaped,
                    execs, supplied, printed, made, base, verdict, last_call, sent, posts, atfault,
                    checked, query >>

ContextPop(t) ==
    /\ pc[t] = "exec"
    /\ \E k \in Keys : context' = [context EXCEPT ![t] = dict_pop(@, k)]
    /\ UNCHANGED << sys_stdout, pc, call_count, max_output_len, depth, max_depth,
                    stdout_capture, old_stdout, slot, error, raised, ret, escaped,
                    execs, supplied, printed, made, base, verdict, last_call, sent, posts, atfault,
                    checked, query >>

\* the script calls rlm_call
RlmCall(t) ==
    /\ pc[t] = "exec"
    /\ call_count[t] < MaxCallsMade
    /\ \E subset \in SubsetArgs, outcome \in TransportOutcomes :
          LET r == rlm_call(call_count[t], context[t], subset, depth[t],
                            max_depth[t], outcome)
          IN  /\ call_count' = [call_count EXCEPT ![t] = r.call_count]
              /\ last_call' = [last_call EXCEPT ![t] =
                                  [called |-> TRUE, ret |-> r.ret,
                                   posts |-> IF r.req.posted THEN 1 ELSE 0,
                                   outcome |-> IF r.req.posted THEN outcome
                                               ELSE NoOutcome]]
              /\ sent' = [sent EXCEPT ![t] = IF r.req.posted THEN r.req ELSE @]
              /\ posts' = [posts EXCEPT ![t] = @ + (IF r.req.posted THEN 1 ELSE 0)]
    /\ made' = [made EXCEPT ![t] = @ + 1]
    /\ UNCHANGED << sys_stdout, pc, context, max_output_len, depth, max_depth,
                    stdout_capture, old_stdout, slot, error, raised, ret, escaped,
                    execs, supplied, printed, base, verdict, atfault,
                    checked, query >>

\* rlm_call up to the POST: the counter, the two budgets, the request sent; the
\* thread then blocks in httpx until Respond
Delegate(t) ==
    /\ pc[t] = "exec"
    /\ call_count[t] < MaxCallsMade
    /\ \E subset \in SubsetArgs :
          LET r == rlm_call(call_count[t], context[t], subset, depth[t],
                            max_depth[t], NoOutcome)
          IN  /\ call_count' = [call_count EXCEPT ![t] = r.call_count]
              /\ IF r.req.posted
                 THEN /\ pc' = [pc EXCEPT ![t] = "waiting"]
                      /\ sent' = [sent EXCEPT ![t] = r.req]
                      /\ posts' = [posts EXCEPT ![t] = @ + 1]
                      /\ last_call' = [last_call EXCEPT ![t] = NoCall]
                 ELSE /\ pc' = pc
                      /\ sent' = sent
                      /\ posts' = posts
                      /\ last_call' = [last_call EXCEPT ![t] =
                                          [called |-> TRUE, ret |-> r.ret, posts |-> 0,
                                           outcome |-> NoOutcome]]
    /\ made' = [made EXCEPT ![t] = @ + 1]
    /\ UNCHANGED << sys_stdout, context, max_output_len, depth, max_depth,
                    stdout_capture, old_stdout, slot, error, raised, ret, escaped,
                    execs, supplied, printed, base, verdict, atfault, checked, query >>

\* the POST ends: a response, an error, or httpx giving up after timeout=120.0;
\* callback turns it into the value rlm_call returns to the script
Respond(t) ==
    /\ pc[t] = "waiting"
    /\ \E outcome \in TransportOutcomes :
          last_call' = [last_call EXCEPT ![t] =
                           [called |-> TRUE, ret |-> post(outcome), posts |-> 1,
                            outcome |-> outcome]]
    /\ pc' = [pc EXCEPT ![t] = "exec"]
    /\ UNCHANGED << sys_stdout, call_count, context, max_output_len, depth, max_depth,
                    stdout_capture, old_stdout, slot, error, raised, ret, escaped,
                    execs, supplied, printed, made, base, verdict, sent, posts,
                    atfault, checked, query >>

\* the script calls get_context
GetContext(t) ==
    /\ pc[t] = "exec"
    /\ \E key \in AccessKeys :
          query' = [query EXCEPT ![t] =
                       [called |-> TRUE, fn |-> "get_context", arg |-> key,
                        before |-> context[t], count |-> call_count[t],
                        raised |-> NoRaise, ret |-> get_context(context[t], key)]]
    /\ UNCHANGED << sys_stdout, pc, call_count, context, max_output_len, depth,
                    max_depth, stdout_capture, old_stdout, slot, error, raised, ret,
                    escaped, execs, supplied, printed, made, base, verdict, last_call,
                    sent, posts, atfault, checked >>

\* the script calls search_context; an exception it raises is a fault of the script
SearchContext(t) ==
    /\ pc[t] = "exec"
    /\ \E pattern \in Patterns :
          LET r == search_context(context[t], pattern)
          IN  /\ query' = [query EXCEPT ![t] =
                              [called |-> TRUE, fn |-> "search_context", arg |-> pattern,
                               before |-> context[t], count |-> call_count[t],
                               raised |-> r.raised, ret |-> r.ret]]
              /\ IF r.raised = NoRaise
                 THEN UNCHANGED << pc, error, atfault >>
                 ELSE /\ pc' = [pc EXCEPT ![t] = "finally"]
                      /\ error' = [error EXCEPT ![t] =
                            FormatError([type |-> r.raised,
                                         arg |-> Str("'int' object has no attribute 'lower'")])]
                      /\ atfault' = [atfault EXCEPT ![t] =
                            [faulted |-> TRUE, printed |-> printed[t], slot |-> slot[t],
                             count |-> call_count[t]]]
    /\ UNCHANGED << sys_stdout, call_count, context, max_output_len, depth,
                    max_depth, stdout_capture, old_stdout, slot, raised, ret,
                    escaped, execs, supplied, printed, made, base, verdict, last_call,
                    sent, posts, checked >>

\* the script runs context["n"] = 7
ContextSetInt(t) ==
    /\ pc[t] = "exec"
    /\ context' = [context EXCEPT ![t] = dict_store(@, IntEntry("n"))]
    /\ UNCHANGED << sys_stdout, pc, call_count, max_output_len, depth, max_depth,
                    stdout_capture, old_stdout, slot, error, raised, ret, escaped,
                    execs, supplied, printed, made, base, verdict, last_call, sent,
                    posts, atfault, checked, query >>

\* a statement of the script raises; lines 255-256
Raise(t) ==
    /\ pc[t] = "exec"
    /\ \E e \in Raisable :
          IF e.type \notin ExceptionSubclasses
          THEN /\ raised' = [raised EXCEPT ![t] = e.type]
               /\ error' = error
          ELSE IF str_raises(e.arg)
          THEN /\ raised' = [raised EXCEPT ![t] = "RecursionError"]
               /\ error' = error
          ELSE /\ raised' = raised
               /\ error' = [error EXCEPT ![t] = FormatError(e)]
    /\ atfault' = [atfault EXCEPT ![t] =
                      [faulted |-> TRUE, printed |-> printed[t], slot |-> slot[t],
                       count |-> call_count[t]]]
    /\ pc' = [pc EXCEPT ![t] = "finally"]
    /\ UNCHANGED << sys_stdout, call_count, context, max_output_len, depth,
                    max_depth, stdout_capture, old_stdout, slot, ret, escaped, execs,
                    supplied, printed, made, base, verdict, last_call, sent, posts,
                    checked, query >>

\* the script runs to its end
ScriptEnd(t) ==
    /\ pc[t] = "exec"
    /\ pc' = [pc EXCEPT ![t] = "finally"]
    /\ UNCHANGED << sys_stdout, call_count, context, max_output_len, depth,
                    max_depth, stdout_capture, old_stdout, slot, error, raised, ret,
                    escaped, execs, supplied, printed, made, base, verdict, last_call, sent,
                    posts, atfault,
                    checked, query >>

\* lines 257-258: sys.stdout = old_stdout; an uncaught exception leaves execute
Finally(t) ==
    /\ pc[t] = "finally"
    /\ sys_stdout' = old_stdout[t]
    /\ IF raised[t] # NoExc
       THEN /\ escaped' = [escaped EXCEPT ![t] = raised[t]]
            /\ pc' = [pc EXCEPT ![t] = "idle"]
       ELSE /\ escaped' = escaped
            /\ pc' = [pc EXCEPT ![t] = "collect"]
    /\ UNCHANGED << call_count, context, max_output_len, depth, max_depth,
                    stdout_capture, old_stdout, slot, error, raised, ret, execs,
                    supplied, printed, made, base, verdict, last_call, sent, posts,
                    atfault,
                    checked, query >>

\* lines 260-274: the output, the result, the returned dictionary
Collect(t) ==
    /\ pc[t] = "collect"
    /\ IF slot[t] # NoSlot /\ ~isinstance_str(slot[t]) /\ str_raises(slot[t])
       THEN /\ escaped' = [escaped EXCEPT ![t] = "RecursionError"]
            /\ ret' = ret
       ELSE /\ escaped' = escaped
            /\ ret' = [ret EXCEPT ![t] =
                          ExecutionResult(slot[t], stdout_capture[t],
                                          max_output_len[t], error[t], call_count[t])]
    /\ pc' = [pc EXCEPT ![t] = "idle"]
    /\ UNCHANGED << sys_stdout, call_count, context, max_output_len, depth,
                    max_depth, stdout_capture, old_stdout, slot, error, raised, execs,
                    supplied, printed, made, base, verdict, last_call, sent, posts,
                    atfault,
                    checked, query >>

\* a call of validate_code
Validate ==
    /\ \E code \in ValidatorInputs :
          checked' = [called |-> TRUE, code |-> code, verdict |-> validate_code(code)]
    /\ UNCHANGED << sys_stdout, pc, call_count, context, max_output_len, depth,
                    max_depth, stdout_capture, old_stdout, slot, error, raised, ret,
                    escaped, execs, supplied, printed, made, base, verdict, last_call,
                    sent, posts, atfault, query >>

\* one execute on a freshly constructed RlmRepl, as execute_code does per request
Next ==
    \E t \in DOMAIN pc :
        \/ ExecuteRejected(t, 1)
        \/ ExecuteValidated(t, 1)
        \/ Redirect(t)
        \/ ScriptPrint(t)
        \/ AssignResult(t)
        \/ DelResult(t)
        \/ ContextSet(t)
        \/ ContextPop(t)
        \/ RlmCall(t)
        \/ Raise(t)
        \/ ScriptEnd(t)
        \/ Finally(t)
        \/ Collect(t)

Spec == Init /\ [][Next]_vars

\* a caller that keeps its RlmRepl and calls execute on it again
InitReuse ==
    /\ Constructed({1})
    /\ context[1] = << Entry("k", "v") >>
    /\ max_output_len[1] = 1

NextReuse ==
    \E t \in DOMAIN pc :
        \/ ExecuteRejected(t, MaxExecs)
        \/ ExecuteValidated(t, MaxExecs)
        \/ Redirect(t)
        \/ RlmCall(t)
        \/ ScriptEnd(t)
        \/ Finally(t)
        \/ Collect(t)

SpecReuse == InitReuse /\ [][NextReuse]_vars

\* two RlmRepls, one execute on each, running on two threads of one process
InitPar ==
    /\ Constructed({1, 2})
    /\ \A t \in {1, 2} :
          /\ context[t] = << Entry("k", "v") >>
          /\ max_output_len[t] = 1
          /\ depth[t] = 0

NextPar ==
    \E t \in DOMAIN pc :
        \/ ExecuteRejected(t, 1)
        \/ ExecuteValidated(t, 1)
        \/ Redirect(t)
        \/ ScriptPrint(t)
        \/ Raise(t)
        \/ ScriptEnd(t)
        \/ Finally(t)
        \/ Collect(t)

SpecPar == InitPar /\ [][NextPar]_vars

\* one execute whose delegations block until the transport ends them; the script
\* is finite, the interpreter keeps running the thread, httpx ends every POST
InitLive ==
    /\ Constructed({1})
    /\ context[1] = << Entry("k", "v") >>
    /\ max_output_len[1] = 1

NextLive ==
    \E t \in DOMAIN pc :
        \/ ExecuteRejected(t, 1)
        \/ ExecuteValidated(t, 1)
        \/ Redirect(t)
        \/ Delegate(t)
        \/ Respond(t)
        \/ Raise(t)
        \/ ScriptEnd(t)
        \/ Finally(t)
        \/ Collect(t)

FairLive ==
    /\ WF_vars(Redirect(1))
    /\ WF_vars(Respond(1))
    /\ WF_vars(ScriptEnd(1) \/ Raise(1))
    /\ WF_vars(Finally(1))
    /\ WF_vars(Collect(1))

SpecLive == InitLive /\ [][NextLive]_vars /\ FairLive

\* one execute of a script that reads the mapping through the accessors
InitAccess ==
    /\ ConstructedWith({1}, AccessContexts)
    /\ max_output_len[1] = 1
    /\ depth[1] = 0

NextAccess ==
    \E t \in DOMAIN pc :
        \/ ExecuteRejected(t, 1)
        \/ ExecuteValidated(t, 1)
        \/ Redirect(t)
        \/ GetContext(t)
        \/ SearchContext(t)
        \/ ContextSetInt(t)
        \/ ScriptEnd(t)
        \/ Finally(t)
        \/ Collect(t)

SpecAccess == InitAccess /\ [][NextAccess]_vars

\* validate_code called on its own, one source text after another
InitValidate ==
    /\ Constructed({1})
    /\ context[1] = << Entry("k", "v") >>
    /\ max_output_len[1] = 1
    /\ depth[1] = 0

NextValidate == Validate

SpecValidate == InitValidate /\ [][NextValidate]_vars

(***************************************************************************)
(* Properties.                                                             *)
(***************************************************************************)
\* the latest execute on t's RlmRepl has ended
Finished(t) == pc[t] = "idle" /\ execs[t] > 0

\* ... and returned a dictionary
Returned(t) == Finished(t) /\ ret[t] # NoResult

NonEmptyError(e) == isinstance_str(e) /\ e.v # ""

\* C1: an execute whose script validate_code rejects returns call_count = 0,
\* result = "", output = "" and a non-empty error, whatever executes and
\* delegations the RlmRepl saw before.
C1_RejectedReturnsZeroCount ==
    \A t \in DOMAIN pc :
        (Finished(t) /\ verdict[t] = "rejected") =>
            /\ ret[t].call_count = 0
            /\ ret[t].result = Str("")
            /\ ret[t].output = << >>
            /\ NonEmptyError(ret[t].error)

\* C2: the call_count an execution returns is the number of rlm_call invocations
\* its script made during that execution, the rejected ones included; it is not
\* capped at max_calls.
C2_CountIsCallsOfTheExecution ==
    \A t \in DOMAIN pc :
        /\ (Returned(t) /\ verdict[t] = "validated") => ret[t].call_count = made[t]
        /\ pc[t] = "exec" => call_count[t] = made[t]

\* C3: the n-th rlm_call of an execution reaches the transport exactly once if
\* n <= max_calls and depth < max_depth, and not at all otherwise; at most
\* max_calls requests per execution; an over-budget call returns the call-budget
\* token, also when the depth budget is exceeded as well.
C3_NthCallForwardedWithinBudgets ==
    \A t \in DOMAIN pc :
        /\ posts[t] <= max_calls
        /\ last_call[t].called =>
              /\ last_call[t].posts =
                    IF made[t] <= max_calls /\ depth[t] < max_depth[t] THEN 1 ELSE 0
              /\ made[t] > max_calls => last_call[t].ret = CallBudgetToken

\* C4 as stated: every request that reaches the transport carries depth + 1, which
\* never exceeds max_depth, and at depth >= max_depth no request is sent and every
\* delegation returns the depth-exceeded token.
C4_DepthTokenOnEveryCall ==
    \A t \in DOMAIN pc :
        /\ sent[t].posted =>
              sent[t].depth = depth[t] + 1 /\ sent[t].depth <= max_depth[t]
        /\ depth[t] >= max_depth[t] =>
              /\ posts[t] = 0
              /\ last_call[t].called => last_call[t].ret = DepthToken(max_depth[t])

\* C4 as amended: every request that reaches the transport carries depth + 1, which
\* never exceeds max_depth; at depth >= max_depth no request is sent, and a
\* delegation returns the depth-exceeded token while the counter is within
\* max_calls and the call-budget token once it is beyond.
C4_DepthNeverExceeded ==
    \A t \in DOMAIN pc :
        /\ sent[t].posted =>
              sent[t].depth = depth[t] + 1 /\ sent[t].depth <= max_depth[t]
        /\ depth[t] >= max_depth[t] =>
              /\ posts[t] = 0
              /\ ~sent[t].posted
              /\ last_call[t].called =>
                    last_call[t].ret =
                        IF call_count[t] > max_calls THEN CallBudgetToken
                        ELSE DepthToken(max_depth[t])

\* an execution at depth >= max_depth has gone past the call budget as well
C4_Witness ==
    \E t \in DOMAIN pc :
        /\ depth[t] >= max_depth[t]
        /\ last_call[t].called
        /\ last_call[t].ret = CallBudgetToken
        /\ posts[t] = 0

\* C5: every execute returns exactly one dictionary; no exception leaves execute,
\* whatever the script raises and whatever it leaves in result.
C5_NoFaultEscapesExecute ==
    \A t \in DOMAIN pc :
        Finished(t) => ret[t] # NoResult /\ escaped[t] = NoExc

\* a response that is no {"result": <string>} object
Malformed(o) ==
    o.kind = "response" /\ (~o.is_dict \/ (o.has_result /\ ~isinstance_str(o.result)))

ErrorTokens ==
    { ErrorToken(o.msg) : o \in TransportOutcomes }
    \cup { ErrorToken("'list' object has no attribute 'get'") }

\* C6: every rlm_call returns a string to the script: a timeout gives the
\* timed-out token, every other failure (transport, protocol, malformed response)
\* the error token.
C6_FailuresBecomeStringTokens ==
    \A t \in DOMAIN pc :
        last_call[t].called =>
            /\ isinstance_str(last_call[t].ret)
            /\ last_call[t].outcome.kind = "TimeoutException" =>
                  last_call[t].ret = TimeoutToken
            /\ (last_call[t].outcome.kind = "HTTPStatusError"
                \/ Malformed(last_call[t].outcome)) =>
                  last_call[t].ret \in ErrorTokens

\* C7: when the script raises part-way and execute returns, the dictionary has a
\* non-empty error, the text printed before the fault (truncated as any output),
\* the result slot as it stood at the fault (as a string, "" when it held "" or was
\* removed) and the counter as the delegations before the fault left it.
C7_FaultKeepsPartialWork ==
    \A t \in DOMAIN pc :
        (Returned(t) /\ atfault[t].faulted) =>
            /\ NonEmptyError(ret[t].error)
            /\ Len(atfault[t].printed) <= max_output_len[t] =>
                  ret[t].output = atfault[t].printed
            /\ (max_output_len[t] >= 0 /\ Len(atfault[t].printed) > max_output_len[t]) =>
                  ret[t].output =
                      SubSeq(atfault[t].printed, 1, max_output_len[t]) \o Marker
            /\ ret[t].result.ty = "str"
            /\ ret[t].result.v = atfault[t].slot.v
            /\ ret[t].call_count = atfault[t].count

\* a script that printed, delegated, assigned result and then raised
C7_Witness ==
    \E t \in DOMAIN pc :
        /\ Returned(t)
        /\ atfault[t].faulted
        /\ atfault[t].printed # << >>
        /\ atfault[t].count > 0
        /\ atfault[t].slot = Int7

\* C8 as stated: for every max_output_len the output is at most
\* max_output_len + len(marker) long; a captured text longer than max_output_len
\* comes back as its first max_output_len characters plus the marker, any other
\* unchanged.
C8_OutputBoundedForEveryLimit ==
    \A t \in DOMAIN pc :
        (Returned(t) /\ verdict[t] = "validated") =>
            /\ Len(ret[t].output) <= max_output_len[t] + Len(Marker)
            /\ Len(stdout_capture[t]) > max_output_len[t] =>
                  ret[t].output =
                      SubSeq(stdout_capture[t], 1, max_output_len[t]) \o Marker
            /\ Len(stdout_capture[t]) <= max_output_len[t] =>
                  ret[t].output = stdout_capture[t]

\* C8 as amended: the same, for every max_output_len >= 0.
C8_OutputBounded ==
    \A t \in DOMAIN pc :
        (Returned(t) /\ max_output_len[t] >= 0) =>
            /\ Len(ret[t].output) <= max_output_len[t] + Len(Marker)
            /\ verdict[t] = "validated" =>
                  /\ Len(stdout_capture[t]) > max_output_len[t] =>
                        ret[t].output =
                            SubSeq(stdout_capture[t], 1, max_output_len[t]) \o Marker
                  /\ Len(stdout_capture[t]) <= max_output_len[t] =>
                        ret[t].output = stdout_capture[t]

\* an execution whose captured text was cut at a positive limit
C8_Witness ==
    \E t \in DOMAIN pc :
        /\ Returned(t)
        /\ verdict[t] = "validated"
        /\ max_output_len[t] > 0
        /\ Len(stdout_capture[t]) > max_output_len[t]

\* C9: executing a script leaves the context mapping as the caller supplied it,
\* and a delegation without a subset sends the mapping as supplied.
C9_ContextUnchanged ==
    \A t \in DOMAIN pc :
        /\ context[t] = supplied[t]
        /\ (sent[t].posted /\ sent[t].whole) => sent[t].context = supplied[t]

\* C10: with executions running on separate threads, the output of each is the
\* text its own script printed (truncated as any output), in every interleaving.
C10_OutputIsOwnText ==
    \A t \in DOMAIN pc :
        (Returned(t) /\ verdict[t] = "validated") =>
            ret[t].output = Truncate(printed[t], max_output_len[t])

\* C11: the result field of every dictionary execute returns is a string: the
\* slot's string as it is, the textual conversion of a non-string value, and ""
\* when the script removed the slot.
C11_ResultIsString ==
    \A t \in DOMAIN pc :
        Returned(t) =>
            /\ ret[t].result.ty = "str"
            /\ verdict[t] = "validated" =>
                  /\ slot[t] = NoSlot => ret[t].result = Str("")
                  /\ isinstance_str(slot[t]) => ret[t].result = slot[t]
                  /\ (slot[t] # NoSlot /\ ~isinstance_str(slot[t])) =>
                        ret[t].result = Str(slot[t].v)

C11_Witness ==
    /\ Returned(1)
    /\ verdict[1] = "validated"
    /\ slot[1] = Int7
    /\ ret[1].result = Str("7")

\* node kinds whose name is an identifier the script spells out
IdentifierKinds == {"Name", "FunctionDef", "keyword"}

dunder(name) == startswith(name, <<"_", "_">>) /\ endswith(name, <<"_", "_">>)

\* an import, a reference to a blocked name, a dunder identifier or member name,
\* a member name with a leading underscore
Prohibited(node) ==
    \/ node.kind \in {"Import", "ImportFrom"}
    \/ node.kind = "Name" /\ node.name \in BLOCKED_NAMES
    \/ node.kind \in IdentifierKinds \cup {"Attribute"} /\ dunder(node.name)
    \/ node.kind = "Attribute" /\ startswith(node.name, <<"_">>)

\* C12: validate_code answers ok = false for every script whose tree holds an
\* import, a reference to a blocked name, an identifier or member name with double
\* leading and trailing underscores, or a member name with a leading underscore,
\* wherever in the tree it stands.
C12_ProhibitedIsRejected ==
    (/\ checked.called
     /\ checked.code.parses
     /\ \E i \in DOMAIN checked.code.tree : Prohibited(checked.code.tree[i]))
        => (checked.verdict.raised = NoRaise /\ ~checked.verdict.ok)

\* the nodes among the first i of the tree that the visitor reports
Reported(tree, i) == { j \in 1..i : visit(tree[j]) # << >> }

\* C13: ok is true exactly when the violation list is empty; k violating nodes
\* give at least k violations, in the order of the walk; a source text that fails
\* to parse gives ok = false and exactly one violation.
C13_ViolationsAccumulate ==
    checked.called =>
        LET tree == checked.code.tree
            v == checked.verdict
        IN  /\ v.raised = NoRaise
            /\ v.ok <=> (v.errors = << >>)
            /\ checked.code.parses =>
                  /\ Len(v.errors) >= Cardinality(Reported(tree, Len(tree)))
                  /\ \A i \in Reported(tree, Len(tree)) :
                        v.errors[Cardinality(Reported(tree, i))] = visit(tree[i])[1]
            /\ ~checked.code.parses => (~v.ok /\ Len(v.errors) = 1)

\* where one execution stands in Created -> Validating -> {Rejected | Validated}
\* -> Executing -> Completed; Validating is inside the step that enters execute
Phase(t) ==
    IF pc[t] = "idle" /\ execs[t] = 0 THEN "Created"
    ELSE IF pc[t] = "idle" /\ verdict[t] = "rejected" THEN "Rejected"
    ELSE IF pc[t] = "idle" THEN "Completed"
    ELSE IF pc[t] = "redirect" THEN "Validated"
    ELSE "Executing"

\* the order of the steps inside Executing
Rank(p) == CASE p \in {"exec", "waiting"} -> 1 [] p = "finally" -> 2 [] p = "collect" -> 3 [] OTHER -> 0

\* what belongs to t's execution
Own(t) ==
    << pc[t], call_count[t], stdout_capture[t], slot[t], error[t], ret[t], escaped[t],
       printed[t], made[t], posts[t], sent[t], last_call[t], verdict[t] >>

C15_Order(t) ==
    IF execs'[t] # execs[t]
    THEN /\ Phase(t) \in {"Created", "Rejected", "Completed"}
         /\ Phase(t)' \in {"Rejected", "Validated"}
    ELSE /\ Phase(t) \in {"Created", "Rejected", "Completed"} => Own(t)' = Own(t)
         /\ Phase(t) = "Validated" => Phase(t)' \in {"Validated", "Executing"}
         /\ Phase(t) = "Executing" =>
               /\ Phase(t)' \in {"Executing", "Completed"}
               /\ Phase(t)' = "Executing" => Rank(pc[t]') >= Rank(pc[t])

C15_Validated(t) ==
    /\ (pc[t] # "idle" \/ made[t] > 0 \/ posts[t] > 0 \/ printed[t] # << >>)
          => verdict[t] = "validated"
    /\ Phase(t) = "Rejected" =>
          /\ made[t] = 0 /\ posts[t] = 0 /\ ~sent[t].posted
          /\ printed[t] = << >>
          /\ call_count[t] = base[t]

C16_ExecutionCompletes ==
    /\ (pc[1] = "waiting") ~> (pc[1] = "exec" /\ last_call[1].called)
    /\ (pc[1] # "idle") ~> Returned(1)

\* the step is an rlm_call of t that POSTed a request
Forwarded(t) == posts'[t] = posts[t] + 1

\* a 2xx response whose body is a JSON object
Success(o) == o.kind = "response" /\ o.is_dict

\* C17: a forwarded delegation carries the whole mapping when rlm_call got no
\* subset and exactly the given subset otherwise, the empty one included; on
\* success rlm_call returns the response's result field, or "" when it has none.
C17_SubsetAndResult ==
    /\ [][\A t \in DOMAIN pc :
            Forwarded(t) =>
                /\ sent'[t].posted
                /\ sent'[t].context =
                      IF sent'[t].subset.given THEN sent'[t].subset.map ELSE context[t]]_vars
    /\ [](\A t \in DOMAIN pc :
            (last_call[t].called /\ Success(last_call[t].outcome)) =>
                last_call[t].ret =
                    IF last_call[t].outcome.has_result
                    THEN last_call[t].outcome.result ELSE Str(""))

C17_Witness ==
    /\ sent[1].posted
    /\ sent[1].subset = [given |-> TRUE, map |-> << >>]
    /\ sent[1].context = << >>
    /\ context[1] # << >>
    /\ last_call[1].called
    /\ Success(last_call[1].outcome) /\ ~last_call[1].outcome.has_result
    /\ last_call[1].ret = Str("")

\* a and b are the same letter in either case
Folds(a, b) == a = b \/ <<a, b>> \in Letters \/ <<b, a>> \in Letters

\* needle occurs in hay when case is ignored
ContainsFolded(hay, needle) ==
    \E i \in 0..(Len(hay) - Len(needle)) :
        \A j \in 1..Len(needle) : Folds(hay[i + j], needle[j])

\* the entries whose key or text value contains the pattern, in the mapping's order
Matching(ctx, pattern) ==
    SelectSeq(ctx, LAMBDA e :
        \/ ContainsFolded(Chars[e.key], Chars[pattern])
        \/ e.ty = "str" /\ ContainsFolded(Chars[e.value], Chars[pattern]))

\* C18: get_context returns the mapped value, or the key-not-found text for an
\* absent key, and never raises; search_context returns exactly the entries whose
\* key or value contains the pattern without regard to case, in the mapping's
\* order, for every pattern; neither changes the mapping or the call counter.
C18_AccessorsTotalReadOnly ==
    /\ [](\A t \in DOMAIN pc :
            query[t].called =>
                LET q == query[t]
                    at == { i \in 1..Len(q.before) : q.before[i].key = q.arg }
                IN  /\ q.raised = NoRaise
                    /\ q.fn = "get_context" =>
                          /\ \A i \in at : q.ret = [ty |-> q.before[i].ty,
                                                     v |-> q.before[i].value]
                          /\ at = {} => q.ret = KeyNotFound(q.arg)
                    /\ q.fn = "search_context" => q.ret = Dict(Matching(q.before, q.arg)))
    /\ [][\A t \in DOMAIN pc :
            query'[t] # query[t] =>
                (context'[t] = context[t] /\ call_count'[t] = call_count[t])]_vars

\* C19: every execution puts sys.stdout back: whenever no execute is running, all
\* that were started having returned or raised in whatever interleaving,
\* sys.stdout is the original stream and not the buffer of a finished execution.
C19_StdoutRestored ==
    (\A t \in DOMAIN pc : pc[t] = "idle") => sys_stdout = OrigStream


====
